---- MODULE Spec2Model ----
(***************************************************************************)
(* Model of droplet-rs manifest generation (src/src/manifest.rs):          *)
(* the chunk planning loop of generate_manifest_rusty, the chunk tasks     *)
(* that digest each planned chunk, the reporter loop and the assembly of   *)
(* the returned Manifest.                                                  *)
(*                                                                         *)
(* Sizes, offsets and lengths are byte counts (Rust u64).  Every value the *)
(* model produces stays far below 2^64, and the tally invariant           *)
(* TallyInRange shows that no subtraction of the planner goes below zero,  *)
(* so plain integer arithmetic is the u64 arithmetic of the code.          *)
(***************************************************************************)
EXTENDS Integers, Sequences, FiniteSets, TLC

VARIABLES
    required_single_file,  \* backend.require_whole_files()
    files,                 \* backend.list_files(): sequence of VersionFile
    idx,                   \* position of the `for version_file in files` loop
    chunks,                \* Vec<Vec<(VersionFile, u64, u64)>>
    current_chunk,         \* Vec<(VersionFile, u64, u64)>
    remaining_size,        \* local of the split branch
    running_offset,        \* local of the split branch
    pc,                    \* position of generate_manifest_rusty
    tasks,                 \* the chunk futures pushed to FuturesUnordered
    backend_lock,          \* Arc<Mutex<backend>>: 0 when free, else the holder
    channel,               \* messages in flight in the mpsc log channel
    send_log_handles,      \* live Sender handles of the log channel
    manifest,              \* Arc<Mutex<HashMap<String, ChunkData>>>
    total_manifest_length, \* Arc<AtomicU64>
    reporter_pc,           \* position of the reporter loop
    current_progress,      \* local of the reporter loop
    progress_out,          \* values passed to progress_sfn, in call order
    log_out,               \* calls of log_sfn, in call order
    result                 \* what generate_manifest_rusty returned

plan_vars == <<required_single_file, files, idx, chunks, current_chunk,
               remaining_size, running_offset>>

pipe_vars == <<tasks, backend_lock, channel, send_log_handles, manifest,
               total_manifest_length, reporter_pc, current_progress,
               progress_out, result>>

vars == <<plan_vars, pc, pipe_vars, log_out>>

----------------------------------------------------------------------------
(* Program constants *)

MiB == 1024 * 1024

CHUNK_SIZE == 1024 * 1024 * 64

WIGGLE == 1024 * 1024

\* manifest.rs:143  tokio::sync::mpsc::channel(16)
LOG_CAPACITY == 16

\* manifest.rs:151  vec![0; 1024 * 1024 * 64]
READ_BUF == 1024 * 1024 * 64

(* Bounds of the model *)

MaxFiles == 3

\* The chunk tasks are explored for plans of at most this many chunks.
MaxTasks == 3

\* File sizes the backend may report, in bytes.
FileSizes ==
    { 0, 1, 20 * MiB, 33 * MiB, 50 * MiB, 62 * MiB,
      CHUNK_SIZE, CHUNK_SIZE + WIGGLE, 100 * MiB, 200 * MiB }

----------------------------------------------------------------------------
(* Helpers *)

Min(a, b) == IF a <= b THEN a ELSE b

RECURSIVE SumSeq(_)
SumSeq(s) == IF s = <<>> THEN 0 ELSE Head(s) + SumSeq(Tail(s))

\* A VersionFile: relative_filename is the position in the listing (names are
\* distinct paths), size is the reported size.  The permission field is copied
\* through unchanged and is left out.
VersionFile(i, s) == [relative_filename |-> i, size |-> s]

\* All listings of at most n files with sizes in S.
ListingsOver(S, n) ==
    UNION { [1..k -> S] : k \in 0..n }

Listings(n) == ListingsOver(FileSizes, n)

\* A planned slice is the Rust tuple (VersionFile, u64, u64): v.0 = v[1] is the
\* file, v.1 = v[2] the second field and v.2 = v[3] the third.  The planner
\* pushes (file, start, length).
Slice(f, a, b) == <<f, a, b>>

\* manifest.rs:73  current_chunk.iter().map(|v| v.2 - v.1).sum::<u64>()
CurrentSize(chunk) ==
    SumSeq([k \in 1..Len(chunk) |-> chunk[k][3] - chunk[k][2]])

\* std::mem::take(&mut current_chunk) followed by chunks.push(new_chunk)
PushChunk(cs, chunk) == Append(cs, chunk)

\* Variant of WholeSlice: the slice is capped at the target chunk size.
WholeSliceCapped(f) == Slice(f, 0, Min(f.size, CHUNK_SIZE))

\* manifest.rs:68, 78, 117  (version_file, 0, size)
WholeSlice(f) == Slice(f, 0, f.size)

\* manifest.rs:92  (CHUNK_SIZE + WIGGLE) - current_size
Budget(current_size) == (CHUNK_SIZE + WIGGLE) - current_size

\* Variant of RemainingBudget: the prefix fills the chunk up to the tolerance.
RemainingBudgetWithWiggle(current_size) == (CHUNK_SIZE + WIGGLE) - current_size

\* manifest.rs:94  CHUNK_SIZE - current_size
RemainingBudget(current_size) == CHUNK_SIZE - current_size

\* Variant of ChunkIsFull: a chunk of exactly the target size stays open.
ChunkIsFullStrict(current_size) == current_size > CHUNK_SIZE

\* manifest.rs:82, 121  current_size >= CHUNK_SIZE
ChunkIsFull(current_size) == current_size >= CHUNK_SIZE

\* Variant of CarveChunkSize: only whole chunks are carved.
CarveChunkSizeWholeChunks(rsize) == (rsize \div CHUNK_SIZE) * CHUNK_SIZE

\* manifest.rs:104  CHUNK_SIZE.min(remaining_size)
CarveChunkSize(rsize) == Min(CHUNK_SIZE, rsize)

\* manifest.rs:103  running_offset < remaining_size
CarveCondition(offset, rsize) == offset < rsize

\* A call of log_sfn made by generate_manifest_rusty itself (manifest.rs:62,
\* 131) and one made by the reporter loop (manifest.rs:216).
MainLog(text, n) == [from |-> "main", text |-> text, n |-> n]
ReporterLog(message) == [from |-> "reporter", text |-> message, n |-> 0]

NoResult == [kind |-> "none"]

----------------------------------------------------------------------------
(* Initial state: after list_files() returned and the first log line,      *)
(* manifest.rs:57-62, before the planning loop                             *)

InitFrom(listings) ==
    /\ required_single_file \in BOOLEAN
    /\ \E sizes \in listings :
          files = [k \in 1..Len(sizes) |-> VersionFile(k, sizes[k])]
    /\ idx = 1
    /\ chunks = <<>>
    /\ current_chunk = <<>>
    /\ remaining_size = 0
    /\ running_offset = 0
    /\ pc = "plan"
    /\ tasks = <<>>
    /\ backend_lock = 0
    /\ channel = <<>>
    /\ send_log_handles = 0
    /\ manifest = <<>>
    /\ total_manifest_length = 0
    /\ reporter_pc = "idle"
    /\ current_progress = 0
    /\ progress_out = <<>>
    /\ log_out = <<MainLog("organizing files into chunks...", 0)>>
    /\ result = NoResult

Init == InitFrom(Listings(MaxFiles))

----------------------------------------------------------------------------
(* The planning loop, manifest.rs:64-126 *)

\* Where the loop over files goes once the carving loop's condition
\* `running_offset < remaining_size` has been evaluated.
CarveOrNext(offset, rsize) ==
    IF CarveCondition(offset, rsize) THEN "carve" ELSE "plan"

\* Variant of PlanWholeOwnChunk: the in-progress chunk is closed before the
\* file's own chunk is pushed.
PlanWholeOwnChunkClosing ==
    /\ pc = "plan" /\ idx <= Len(files)
    /\ required_single_file /\ files[idx].size >= CHUNK_SIZE
    /\ chunks' = PushChunk(IF current_chunk # <<>>
                           THEN PushChunk(chunks, current_chunk) ELSE chunks,
                           <<WholeSlice(files[idx])>>)
    /\ current_chunk' = <<>>
    /\ idx' = idx + 1
    /\ UNCHANGED <<required_single_file, files,
                   remaining_size, running_offset, pc>>
    /\ UNCHANGED <<pipe_vars, log_out>>

\* manifest.rs:66-71: whole files only, and the file fills a chunk by itself.
PlanWholeOwnChunk ==
    /\ pc = "plan" /\ idx <= Len(files)
    /\ required_single_file /\ files[idx].size >= CHUNK_SIZE
    /\ chunks' = PushChunk(chunks, <<WholeSlice(files[idx])>>)
    /\ idx' = idx + 1
    /\ UNCHANGED <<required_single_file, files, current_chunk,
                   remaining_size, running_offset, pc>>
    /\ UNCHANGED <<pipe_vars, log_out>>

\* manifest.rs:76-89: whole files only, the file joins the in-progress chunk.
PlanWholeAppend ==
    /\ pc = "plan" /\ idx <= Len(files)
    /\ required_single_file /\ files[idx].size < CHUNK_SIZE
    /\ LET size == files[idx].size
           pushed == Append(current_chunk, WholeSlice(files[idx]))
           current_size == CurrentSize(current_chunk) + size
       IN  IF ChunkIsFull(current_size)
           THEN /\ chunks' = PushChunk(chunks, pushed)
                /\ current_chunk' = <<>>
           ELSE /\ chunks' = chunks
                /\ current_chunk' = pushed
    /\ idx' = idx + 1
    /\ UNCHANGED <<required_single_file, files, remaining_size,
                   running_offset, pc>>
    /\ UNCHANGED <<pipe_vars, log_out>>

\* manifest.rs:92-101: range-capable backend, the file does not fit the
\* remaining budget: its prefix closes the in-progress chunk and the carving
\* loop is entered.
PlanSplit ==
    /\ pc = "plan" /\ idx <= Len(files)
    /\ ~required_single_file
    /\ LET version_file == files[idx]
           current_size == CurrentSize(current_chunk)
           budget == Budget(current_size)
           remaining_budget == RemainingBudget(current_size)
           rsize == version_file.size - remaining_budget
       IN  /\ version_file.size >= budget
           /\ chunks' = PushChunk(chunks,
                   Append(current_chunk, Slice(version_file, 0, remaining_budget)))
           /\ current_chunk' = <<>>
           /\ remaining_size' = rsize
           /\ running_offset' = remaining_budget
           /\ pc' = CarveOrNext(remaining_budget, rsize)
           /\ idx' = IF CarveCondition(remaining_budget, rsize) THEN idx ELSE idx + 1
    /\ UNCHANGED <<required_single_file, files>>
    /\ UNCHANGED <<pipe_vars, log_out>>

\* manifest.rs:103-112: one iteration of the carving loop.
Carve ==
    /\ pc = "carve"
    /\ CarveCondition(running_offset, remaining_size)
    /\ LET version_file == files[idx]
           chunk_size == CarveChunkSize(remaining_size)
           chunk == <<Slice(version_file, running_offset, chunk_size)>>
           offset == running_offset + chunk_size
       IN  /\ IF chunk_size = CHUNK_SIZE
              THEN /\ chunks' = PushChunk(chunks, chunk)
                   /\ current_chunk' = current_chunk
              ELSE /\ chunks' = chunks
                   /\ current_chunk' = chunk
           /\ running_offset' = offset
           /\ pc' = CarveOrNext(offset, remaining_size)
           /\ idx' = IF CarveCondition(offset, remaining_size) THEN idx ELSE idx + 1
    /\ UNCHANGED <<required_single_file, files, remaining_size>>
    /\ UNCHANGED <<pipe_vars, log_out>>

\* manifest.rs:115-125: range-capable backend, the whole file is accepted.
PlanAccept ==
    /\ pc = "plan" /\ idx <= Len(files)
    /\ ~required_single_file
    /\ LET version_file == files[idx]
           size == version_file.size
           budget == Budget(CurrentSize(current_chunk))
           pushed == Append(current_chunk, WholeSlice(version_file))
           current_size == CurrentSize(current_chunk) + size
       IN  /\ version_file.size < budget
           /\ IF ChunkIsFull(current_size)
              THEN /\ chunks' = PushChunk(chunks, pushed)
                   /\ current_chunk' = <<>>
              ELSE /\ chunks' = chunks
                   /\ current_chunk' = pushed
    /\ idx' = idx + 1
    /\ UNCHANGED <<required_single_file, files, remaining_size,
                   running_offset, pc>>
    /\ UNCHANGED <<pipe_vars, log_out>>

\* Variant of Flush: the planner also reports a progress value of 0 itself.
FlushWithProgress ==
    /\ pc = "plan" /\ idx > Len(files)
    /\ chunks' = IF current_chunk # <<>> THEN PushChunk(chunks, current_chunk)
                                         ELSE chunks
    /\ current_chunk' = <<>>
    /\ log_out' = Append(log_out, MainLog("organized into chunks",
                              Len(chunks) + (IF current_chunk # <<>> THEN 1 ELSE 0)))
    /\ progress_out' = Append(progress_out, <<0, 1>>)
    /\ pc' = "planned"
    /\ UNCHANGED <<required_single_file, files, idx, remaining_size,
                   running_offset, tasks, backend_lock, channel,
                   send_log_handles, manifest, total_manifest_length,
                   reporter_pc, current_progress, result>>

\* manifest.rs:127-134: the trailing in-progress chunk is flushed and the
\* number of chunks is logged.
Flush ==
    /\ pc = "plan" /\ idx > Len(files)
    /\ chunks' = IF current_chunk # <<>> THEN PushChunk(chunks, current_chunk)
                                         ELSE chunks
    /\ current_chunk' = <<>>
    /\ log_out' = Append(log_out, MainLog("organized into chunks",
                              Len(chunks) + (IF current_chunk # <<>> THEN 1 ELSE 0)))
    /\ pc' = "planned"
    /\ UNCHANGED <<required_single_file, files, idx, remaining_size,
                   running_offset, pipe_vars>>

----------------------------------------------------------------------------
(* The backends' readers, versions/backends.rs *)

NoReader == [open |-> FALSE, name |-> 0, size |-> 0, pos |-> 0,
             limited |-> FALSE, limit |-> 0]

\* PathVersionBackend::reader, backends.rs:67-84: the file is opened, seeked
\* to start when start != 0, and limited to end - start bytes when end != 0;
\* with end = 0 the reader runs to the end of the file.  The file on disk has
\* the size that list_files reported.
PathReader(file, start, end) ==
    [open |-> TRUE, name |-> file.relative_filename, size |-> file.size,
     pos |-> IF start # 0 THEN start ELSE 0,
     limited |-> end # 0,
     limit |-> IF end # 0 THEN end - start ELSE 0]

\* ZipVersionBackend::reader, backends.rs:197-215: `7z e -so` streams the
\* whole file; _start and _end are ignored.
ZipReader(file, start, end) ==
    [open |-> TRUE, name |-> file.relative_filename, size |-> file.size,
     pos |-> 0, limited |-> FALSE, limit |-> 0]

\* backend_lock.reader(&file, start, start + length), manifest.rs:167: the zip
\* backend is the one that requires whole files (backends.rs:115, 227).
BackendReader(file, start, end) ==
    IF required_single_file THEN ZipReader(file, start, end)
                            ELSE PathReader(file, start, end)

\* Bytes the reader can still deliver.
Available(r) ==
    LET left == IF r.pos < r.size THEN r.size - r.pos ELSE 0
    IN  IF r.limited THEN Min(r.limit, left) ELSE left

\* reader.read(&mut read_buf), manifest.rs:172: the amount one read returns.
\* A read may return fewer bytes than asked; the digest only sees the
\* concatenation, so each read is taken to fill the buffer when it can.
ReadAmount(r) == Min(READ_BUF, Available(r))

\* hasher.update(&read_buf[0..amount]), manifest.rs:176.  The digest input is
\* kept as the sequence of byte ranges <<file, from, to>> fed to it, adjacent
\* ranges of one file joined; Sha256 is taken to be injective on it.
HasherUpdate(h, name, from, to) ==
    IF h # <<>> /\ h[Len(h)][1] = name /\ h[Len(h)][3] = from
    THEN [h EXCEPT ![Len(h)] = <<name, h[Len(h)][2], to>>]
    ELSE Append(h, <<name, from, to>>)

\* hasher.finalize().encode_hex(), manifest.rs:200
Checksum(h) == <<"sha256", h>>

\* manifest.rs:181-186
FileEntry(file, start, length) ==
    [filename |-> file.relative_filename, start |-> start, length |-> length]

----------------------------------------------------------------------------
(* The chunk tasks, manifest.rs:145-209 *)

\* Variant of NewTask: the identifier is generated once, outside the loop over
\* the chunks, and every task gets the same one.
NewTaskSharedUuid(index, chunk) ==
    [pc |-> IF chunk = <<>> THEN "send" ELSE "lock",
     index |-> index, chunk |-> chunk, slice |-> 1, uuid |-> 0,
     hashed |-> <<>>, chunk_length |-> 0, files |-> <<>>, reader |-> NoReader]

\* manifest.rs:150-162: the state of a chunk future before its first await.
\* uuid::Uuid::new_v4() is taken to return an identifier no other task got;
\* the futures are first polled in the order they were pushed, so the k-th
\* identifier goes to the k-th chunk.
NewTask(index, chunk) ==
    [pc |-> IF chunk = <<>> THEN "send" ELSE "lock",
     index |-> index, chunk |-> chunk, slice |-> 1, uuid |-> index,
     hashed |-> <<>>, chunk_length |-> 0, files |-> <<>>, reader |-> NoReader]

TaskOver(t) == t.pc \in {"done", "failed"}

\* Variant of SendersAfterSpawn: drop(send_log) is left out, so the original
\* Sender outlives the chunk futures.
SendersWithoutDrop(n) == n + 1

\* manifest.rs:143-210: channel() makes one Sender, each of the n chunk futures
\* takes a clone of it (line 146) and the original is dropped (line 210).
SendersAfterSpawn(n) == n + 1 - 1

\* manifest.rs:136-210: the shared state is set up, one future per chunk is
\* pushed, each with its own clone of send_log, and the original is dropped.
SpawnTasks ==
    /\ pc = "planned"
    /\ tasks' = [i \in 1..Len(chunks) |-> NewTask(i - 1, chunks[i])]
    /\ send_log_handles' = SendersAfterSpawn(Len(chunks))
    /\ manifest' = <<>>
    /\ total_manifest_length' = 0
    /\ backend_lock' = 0
    /\ channel' = <<>>
    /\ reporter_pc' = "recv"
    /\ current_progress' = 0
    /\ pc' = "join"
    /\ UNCHANGED <<plan_vars, progress_out, log_out, result>>

\* The chunk tasks of a plan of at most MaxTasks chunks, in every interleaving.
Spawn ==
    /\ Len(chunks) <= MaxTasks
    /\ SpawnTasks

\* Variant of MutexAvailable: lock() returns at once whoever holds the guard.
MutexAvailableAlways(lock) == TRUE

\* manifest.rs:166  lock().await of the tokio Mutex around the backend returns
\* only when no guard is alive (0 stands for "no holder").
MutexAvailable(lock) == lock = 0

\* manifest.rs:166  backend.lock().await
TaskLock(i) ==
    /\ pc = "join" /\ tasks[i].pc = "lock"
    /\ MutexAvailable(backend_lock)
    /\ backend_lock' = i
    /\ tasks' = [tasks EXCEPT ![i].pc = "reader"]
    /\ UNCHANGED <<plan_vars, pc, channel, send_log_handles, manifest,
                   total_manifest_length, reporter_pc, current_progress,
                   progress_out, log_out, result>>

\* manifest.rs:167-169  reader(&file, start, start + length) succeeds and the
\* lock guard is dropped.
TaskReader(i) ==
    /\ pc = "join" /\ tasks[i].pc = "reader"
    /\ LET v == tasks[i].chunk[tasks[i].slice]
           start == v[2]
           length == v[3]
       IN  tasks' = [tasks EXCEPT ![i].pc = "read",
                       ![i].reader = BackendReader(v[1], start, start + length)]
    /\ backend_lock' = 0
    /\ UNCHANGED <<plan_vars, pc, channel, send_log_handles, manifest,
                   total_manifest_length, reporter_pc, current_progress,
                   progress_out, log_out, result>>

\* manifest.rs:167  reader(...) returns Err: `?` ends the future with the
\* error, dropping the lock guard and the task's Sender.
TaskReaderFails(i) ==
    /\ pc = "join" /\ tasks[i].pc = "reader"
    /\ tasks' = [tasks EXCEPT ![i].pc = "failed"]
    /\ backend_lock' = 0
    /\ send_log_handles' = send_log_handles - 1
    /\ UNCHANGED <<plan_vars, pc, channel, manifest,
                   total_manifest_length, reporter_pc, current_progress,
                   progress_out, log_out, result>>

\* manifest.rs:171-187: one reader.read().  A positive amount is fed to the
\* hasher; amount 0 ends the slice: its length is added to chunk_length, the
\* FileEntry is pushed and the loop moves to the next slice or to the send.
TaskRead(i) ==
    /\ pc = "join" /\ tasks[i].pc = "read"
    /\ LET t == tasks[i]
           r == t.reader
           amount == ReadAmount(r)
           v == t.chunk[t.slice]
       IN  IF amount # 0
           THEN tasks' = [tasks EXCEPT
                    ![i].hashed = HasherUpdate(t.hashed, r.name, r.pos,
                                               r.pos + amount),
                    ![i].reader = [r EXCEPT !.pos = r.pos + amount,
                                     !.limit = IF r.limited
                                               THEN r.limit - amount ELSE 0]]
           ELSE tasks' = [tasks EXCEPT
                    ![i].chunk_length = t.chunk_length + v[3],
                    ![i].files = Append(t.files, FileEntry(v[1], v[2], v[3])),
                    ![i].reader = NoReader,
                    ![i].slice = t.slice + 1,
                    ![i].pc = IF t.slice < Len(t.chunk) THEN "lock" ELSE "send"]
    /\ UNCHANGED <<plan_vars, pc, backend_lock, channel, send_log_handles,
                   manifest, total_manifest_length, reporter_pc,
                   current_progress, progress_out, log_out, result>>

\* Variant of TaskReadFails: the failing task still reports its completion
\* (as a send placed in a drop guard would).
TaskReadFailsButReports(i) ==
    /\ pc = "join" /\ tasks[i].pc = "read"
    /\ Len(channel) < LOG_CAPACITY
    /\ channel' = Append(channel,
                    [chunk_length |-> tasks[i].chunk_length,
                     nfiles |-> Len(tasks[i].files),
                     index |-> tasks[i].index])
    /\ tasks' = [tasks EXCEPT ![i].pc = "failed", ![i].reader = NoReader]
    /\ send_log_handles' = send_log_handles - 1
    /\ UNCHANGED <<plan_vars, pc, backend_lock, manifest,
                   total_manifest_length, reporter_pc, current_progress,
                   progress_out, log_out, result>>

\* manifest.rs:172  reader.read() returns Err: `?` ends the future.
TaskReadFails(i) ==
    /\ pc = "join" /\ tasks[i].pc = "read"
    /\ tasks' = [tasks EXCEPT ![i].pc = "failed", ![i].reader = NoReader]
    /\ send_log_handles' = send_log_handles - 1
    /\ UNCHANGED <<plan_vars, pc, backend_lock, channel, manifest,
                   total_manifest_length, reporter_pc, current_progress,
                   progress_out, log_out, result>>

\* Variant of AddToTotal: the total is stored, not accumulated.
AddToTotalStore(total, chunk_length) == chunk_length

\* manifest.rs:198  total_manifest_length.fetch_add(chunk_length, Relaxed)
AddToTotal(total, chunk_length) == total + chunk_length

\* manifest.rs:189-201: the completion message is sent once the channel has
\* room (the receiver lives until the reporter loop ends, so the send cannot
\* fail), then chunk_length is added to the total and the digest finalized.
TaskSend(i) ==
    /\ pc = "join" /\ tasks[i].pc = "send"
    /\ Len(channel) < LOG_CAPACITY
    /\ channel' = Append(channel,
                    [chunk_length |-> tasks[i].chunk_length,
                     nfiles |-> Len(tasks[i].files),
                     index |-> tasks[i].index])
    /\ total_manifest_length' =
          AddToTotal(total_manifest_length, tasks[i].chunk_length)
    /\ tasks' = [tasks EXCEPT ![i].pc = "insert"]
    /\ UNCHANGED <<plan_vars, pc, backend_lock, send_log_handles, manifest,
                   reporter_pc, current_progress, progress_out, log_out,
                   result>>

\* Variant of MapInsert: each task stores a map holding only its own record,
\* so the last task to finish decides the result.
MapInsertOnlyLast(m, k, v) == [u \in {k} |-> v]

\* HashMap::insert(uuid, chunk_data): an entry under the same key is replaced.
MapInsert(m, k, v) ==
    [u \in (DOMAIN m) \cup {k} |-> IF u = k THEN v ELSE m[u]]

\* manifest.rs:202-207: the record is inserted under the manifest lock and the
\* future returns Ok(()), dropping its Sender.
TaskInsert(i) ==
    /\ pc = "join" /\ tasks[i].pc = "insert"
    /\ manifest' = MapInsert(manifest, tasks[i].uuid,
                     [files |-> tasks[i].files,
                      checksum |-> Checksum(tasks[i].hashed)])
    /\ tasks' = [tasks EXCEPT ![i].pc = "done"]
    /\ send_log_handles' = send_log_handles - 1
    /\ UNCHANGED <<plan_vars, pc, backend_lock, channel,
                   total_manifest_length, reporter_pc, current_progress,
                   progress_out, log_out, result>>

----------------------------------------------------------------------------
(* The reporter loop and the return, manifest.rs:211-231 *)

\* Variant of ProgressValue: the quotient is taken in integers.
ProgressValueIntegerQuotient(received, total) ==
    <<(received \div total) * 100, 1>>

\* (current_progress / total_progress) * 100.0, manifest.rs:218, kept as the
\* exact fraction <<numerator, denominator>> of the percentage.
ProgressValue(received, total) == <<received * 100, total>>

\* manifest.rs:215-219: a message is received, logged and counted.
ReporterRecv ==
    /\ pc = "join" /\ reporter_pc = "recv"
    /\ channel # <<>>
    /\ channel' = Tail(channel)
    /\ log_out' = Append(log_out, ReporterLog(Head(channel)))
    /\ current_progress' = current_progress + 1
    /\ progress_out' = Append(progress_out,
                          ProgressValue(current_progress + 1, Len(tasks)))
    /\ UNCHANGED <<plan_vars, pc, tasks, backend_lock, send_log_handles,
                   manifest, total_manifest_length, reporter_pc, result>>

\* manifest.rs:215: recv() returns None once the channel is empty and every
\* Sender has been dropped.
ReporterEnd ==
    /\ pc = "join" /\ reporter_pc = "recv"
    /\ channel = <<>> /\ send_log_handles = 0
    /\ reporter_pc' = "done"
    /\ UNCHANGED <<plan_vars, pc, tasks, backend_lock, channel,
                   send_log_handles, manifest, total_manifest_length,
                   current_progress, progress_out, log_out, result>>

\* What the join hands back: futures.collect::<Vec<Result<(), Error>>>().
TaskResults == [i \in 1..Len(tasks) |-> IF tasks[i].pc = "failed" THEN "Err" ELSE "Ok"]

\* manifest.rs:211-231: join! completes when the reporter loop and every
\* chunk future are over; its value (TaskResults) is dropped and
\* Ok(Manifest { version, chunks, size }) is returned.
ReturnValue(results) ==
    [kind |-> "Ok", chunks |-> manifest, size |-> total_manifest_length]

\* Variant of JoinDone: the join gives up at the first chunk task that
\* returns an error, dropping its siblings (what try_join! would do).
JoinDoneOrFailed ==
    \/ /\ reporter_pc = "done"
       /\ \A i \in 1..Len(tasks) : TaskOver(tasks[i])
    \/ \E i \in 1..Len(tasks) : tasks[i].pc = "failed"

\* manifest.rs:211-222: join! resolves when the reporter loop has ended and
\* futures.collect() has seen every chunk future resolve, Ok or Err.
JoinDone ==
    /\ reporter_pc = "done"
    /\ \A i \in 1..Len(tasks) : TaskOver(tasks[i])

Return ==
    /\ pc = "join"
    /\ JoinDone
    /\ result' = ReturnValue(TaskResults)
    /\ pc' = "returned"
    /\ UNCHANGED <<plan_vars, tasks, backend_lock, channel, send_log_handles,
                   manifest, total_manifest_length, reporter_pc,
                   current_progress, progress_out, log_out>>

Next ==
    \/ PlanWholeOwnChunk
    \/ PlanWholeAppend
    \/ PlanSplit
    \/ Carve
    \/ PlanAccept
    \/ Flush

Spec == Init /\ [][Next]_vars

\* The whole of generate_manifest_rusty: planning, then the chunk tasks, the
\* reporter loop and the return.
PipeNext ==
    \/ Next
    \/ Spawn
    \/ \E i \in 1..Len(tasks) : TaskLock(i)
    \/ \E i \in 1..Len(tasks) : TaskReader(i)
    \/ \E i \in 1..Len(tasks) : TaskReaderFails(i)
    \/ \E i \in 1..Len(tasks) : TaskRead(i)
    \/ \E i \in 1..Len(tasks) : TaskReadFails(i)
    \/ \E i \in 1..Len(tasks) : TaskSend(i)
    \/ \E i \in 1..Len(tasks) : TaskInsert(i)
    \/ ReporterRecv
    \/ ReporterEnd
    \/ Return

\* Listings the chunk tasks are explored for.
PipeFileSizes == { 0, 50 * MiB, 100 * MiB }

PipeMaxFiles == 2

PipeInit == InitFrom(ListingsOver(PipeFileSizes, PipeMaxFiles))

PipeSpec == PipeInit /\ [][PipeNext]_vars

\* The planning loop always takes its next step: it is straight-line
\* sequential code with no suspension point.
FairSpec == Init /\ [][Next]_vars /\ WF_vars(Next)

----------------------------------------------------------------------------
(* Reading a plan *)

\* The plan so far: the closed chunks, then the in-progress chunk if any.
PlanSoFar ==
    IF current_chunk = <<>> THEN chunks ELSE Append(chunks, current_chunk)

\* Positions <<chunk, slice>> of the slices of a plan.
SlicePositions(cs) ==
    { <<k, j>> \in (1..Len(cs)) \X (1..(MaxFiles + 1)) : j <= Len(cs[k]) }

SliceAt(cs, p) == cs[p[1]][p[2]]
SliceFile(v) == v[1]
SliceStart(v) == v[2]
SliceLength(v) == v[3]

\* Positions of the slices of listing entry i.
SlicesOfFile(cs, i) ==
    { p \in SlicePositions(cs) : SliceFile(SliceAt(cs, p)).relative_filename = i }

RECURSIVE SumLengths(_, _)
SumLengths(cs, ps) ==
    IF ps = {} THEN 0
    ELSE LET p == CHOOSE q \in ps : TRUE
         IN  SliceLength(SliceAt(cs, p)) + SumLengths(cs, ps \ {p})

\* Payload of a chunk: the sum of its slice lengths (what a chunk task adds up
\* as chunk_length, manifest.rs:179).
Payload(chunk) == SumSeq([k \in 1..Len(chunk) |-> SliceLength(chunk[k])])

\* The slices of file i lie inside [0, size), are pairwise disjoint and their
\* lengths add up to size: they partition [0, size).
PartitionsFile(cs, i) ==
    LET ps == SlicesOfFile(cs, i)
        size == files[i].size
    IN  /\ \A p \in ps :
              /\ SliceStart(SliceAt(cs, p)) >= 0
              /\ SliceStart(SliceAt(cs, p)) + SliceLength(SliceAt(cs, p)) <= size
        /\ \A p, q \in ps :
              p # q =>
                \/ SliceStart(SliceAt(cs, p)) + SliceLength(SliceAt(cs, p))
                      <= SliceStart(SliceAt(cs, q))
                \/ SliceStart(SliceAt(cs, q)) + SliceLength(SliceAt(cs, q))
                      <= SliceStart(SliceAt(cs, p))
        /\ SumLengths(cs, ps) = size

\* The listing holds exactly these sizes, in this order.
SizesAre(sizes) ==
    /\ Len(files) = Len(sizes)
    /\ \A k \in 1..Len(sizes) : files[k].size = sizes[k]

\* Supporting invariant of the u64 arithmetic: every tallied tuple has
\* v.2 >= v.1 and the tally of the in-progress chunk stays below CHUNK_SIZE,
\* so lines 73, 92, 94 and 100 never subtract below zero.
TallyInRange ==
    /\ \A k \in 1..Len(current_chunk) :
          current_chunk[k][3] >= current_chunk[k][2]
    /\ CurrentSize(current_chunk) < CHUNK_SIZE
    /\ remaining_size >= 0

----------------------------------------------------------------------------
(* Claims about the chunk plan *)

\* C1: when planning is over, for each file (either backend mode) the slices
\* assigned to it across all chunks exactly partition [0, size): no byte is
\* missing and none is covered twice.
C1_SlicesPartitionFiles ==
    pc = "planned" => \A i \in 1..Len(files) : PartitionsFile(chunks, i)

\* C3: under a whole-files-only backend every slice, in every closed chunk and
\* in the in-progress chunk, starts at 0 and is as long as its file.
C3_WholeFilesUnsplit ==
    required_single_file =>
        \A p \in SlicePositions(PlanSoFar) :
            LET v == SliceAt(PlanSoFar, p)
            IN  SliceStart(v) = 0 /\ SliceLength(v) = SliceFile(v).size

\* C3 witness: a finished whole-files plan with an oversized file in its own
\* chunk and a chunk packing two files.
C3_Witness ==
    /\ pc = "planned" /\ required_single_file
    /\ \E k \in 1..Len(chunks) :
          Len(chunks[k]) = 1 /\ SliceLength(chunks[k][1]) > CHUNK_SIZE
    /\ \E k \in 1..Len(chunks) : Len(chunks[k]) >= 2

\* C5: every planned slice lies inside its file: start <= size and
\* start + length <= size (the two sanity checks of main).
C5_SlicesInsideFile ==
    \A p \in SlicePositions(PlanSoFar) :
        LET v == SliceAt(PlanSoFar, p)
        IN  /\ SliceStart(v) <= SliceFile(v).size
            /\ SliceStart(v) + SliceLength(v) <= SliceFile(v).size

\* C6: a single 200 MiB file under a range-capable backend is planned as four
\* chunks in order: [0,64), [64,128), [128,192) MiB and the remaining
\* [192,200) MiB.
C6_TwoHundredMiB ==
    (pc = "planned" /\ ~required_single_file /\ SizesAre(<<200 * MiB>>)) =>
        chunks = << <<Slice(files[1], 0, 64 * MiB)>>,
                    <<Slice(files[1], 64 * MiB, 64 * MiB)>>,
                    <<Slice(files[1], 128 * MiB, 64 * MiB)>>,
                    <<Slice(files[1], 192 * MiB, 8 * MiB)>> >>

\* C7: under a range-capable backend every emitted chunk has a payload of at
\* most CHUNK_SIZE + WIGGLE.
C7_PayloadWithinTolerance ==
    ~required_single_file =>
        \A k \in 1..Len(chunks) : Payload(chunks[k]) <= CHUNK_SIZE + WIGGLE

\* The file at listing position i is in exactly one chunk of the finished
\* plan, and that chunk holds no slice of another file.
AloneInOneChunk(i) ==
    /\ Cardinality({ p[1] : p \in SlicesOfFile(chunks, i) }) = 1
    /\ \A p \in SlicesOfFile(chunks, i) :
          \A j \in 1..Len(chunks[p[1]]) :
              SliceFile(chunks[p[1]][j]).relative_filename = i

\* C8 as stated: under a range-capable backend a file of exactly CHUNK_SIZE
\* ends up in exactly one chunk holding no other file, whatever precedes it.
C8_Original ==
    (pc = "planned" /\ ~required_single_file) =>
        \A i \in 1..Len(files) :
            files[i].size = CHUNK_SIZE => AloneInOneChunk(i)

\* C8 amended: under a range-capable backend a file of exactly CHUNK_SIZE that
\* is reached while the in-progress chunk is empty is emitted in that step as
\* one new chunk holding only its slice (0, CHUNK_SIZE), the in-progress chunk
\* stays empty and the loop moves to the next file; and no step ever alters or
\* removes a chunk already emitted.
C8_ExactFileOnEmptyChunk ==
    [][ /\ \A k \in 1..Len(chunks) : Len(chunks') >= k /\ chunks'[k] = chunks[k]
        /\ ( /\ pc = "plan" /\ idx <= Len(files) /\ ~required_single_file
             /\ files[idx].size = CHUNK_SIZE /\ current_chunk = <<>> )
           => /\ chunks' = Append(chunks, <<Slice(files[idx], 0, CHUNK_SIZE)>>)
              /\ current_chunk' = <<>>
              /\ idx' = idx + 1 /\ pc' = "plan" ]_vars

\* C8 witness: a finished range-capable plan in which a CHUNK_SIZE file that
\* is not the first of the listing sits alone in its own chunk.
C8_Witness ==
    /\ pc = "planned" /\ ~required_single_file
    /\ \E i \in 2..Len(files) :
          /\ files[i].size = CHUNK_SIZE
          /\ \E k \in 2..Len(chunks) :
                chunks[k] = <<Slice(files[i], 0, CHUNK_SIZE)>>

\* C9: files A, B, C of 50, 50 and 20 MiB under a range-capable backend are
\* planned as exactly two chunks, [A[0,50), B[0,14)] and [B[14,50), C[0,20)].
C9_FiftyFiftyTwenty ==
    (pc = "planned" /\ ~required_single_file
        /\ SizesAre(<<50 * MiB, 50 * MiB, 20 * MiB>>)) =>
        chunks = << <<Slice(files[1], 0, 50 * MiB), Slice(files[2], 0, 14 * MiB)>>,
                    <<Slice(files[2], 14 * MiB, 36 * MiB),
                      Slice(files[3], 0, 20 * MiB)>> >>

\* C9 witness: planning of the 50/50/20 MiB listing has finished.
C9_Witness ==
    /\ pc = "planned" /\ ~required_single_file
    /\ SizesAre(<<50 * MiB, 50 * MiB, 20 * MiB>>)
    /\ Len(chunks) = 2

\* Each zero-byte file of a finished plan is in exactly one chunk, as one
\* slice (0, 0).
ZeroByteFilesOnce ==
    pc = "planned" =>
        \A i \in 1..Len(files) :
            files[i].size = 0 =>
                /\ Cardinality(SlicesOfFile(chunks, i)) = 1
                /\ \A p \in SlicesOfFile(chunks, i) :
                      /\ SliceStart(SliceAt(chunks, p)) = 0
                      /\ SliceLength(SliceAt(chunks, p)) = 0

\* C10: in either backend mode planning terminates, each zero-byte file ends
\* up in exactly one chunk as a single slice of length 0, and every iteration
\* of the carving loop advances running_offset.
C10_ZeroByteAndTermination ==
    /\ <>(pc = "planned")
    /\ []ZeroByteFilesOnce
    /\ [][pc = "carve" => running_offset' > running_offset]_vars

\* C10 witness: a finished plan of a listing with a zero-byte file in which
\* the carving loop ran (some slice starts past the prefix of its file).
C10_Witness ==
    /\ pc = "planned"
    /\ \E i \in 1..Len(files) : files[i].size = 0
    /\ \E p \in SlicePositions(chunks) :
          /\ SliceStart(SliceAt(chunks, p)) > 0
          /\ \E q \in SlicePositions(chunks) :
                SliceFile(SliceAt(chunks, q)).size = 0 /\ q[1] >= p[1]

----------------------------------------------------------------------------
(* Claims about the chunk tasks and the returned manifest *)

SomeTaskFailed == \E i \in 1..Len(tasks) : tasks[i].pc = "failed"

\* C2: if any chunk task failed, generate_manifest_rusty returns an error and
\* no Manifest.
C2_FailureReturnsError ==
    (pc = "returned" /\ SomeTaskFailed) => result.kind = "Err"

\* Sum, over the records of a chunks map, of the lengths of their file entries.
RECURSIVE RecordsLength(_, _)
RecordsLength(m, keys) ==
    IF keys = {} THEN 0
    ELSE LET k == CHOOSE u \in keys : TRUE
         IN  SumSeq([j \in 1..Len(m[k].files) |-> m[k].files[j].length])
                + RecordsLength(m, keys \ {k})

\* C4: the declared size of the returned Manifest equals the sum, over the
\* chunk records in its chunks map, of the lengths of their file entries,
\* under every interleaving and also when some chunk tasks failed.
C4_SizeIsSumOfRecords ==
    pc = "returned" =>
        result.size = RecordsLength(result.chunks, DOMAIN result.chunks)

\* C4 witness: a Manifest was returned after one chunk task failed and two
\* others inserted their records, one of them with two file entries.
C4_Witness ==
    /\ pc = "returned" /\ SomeTaskFailed
    /\ Cardinality(DOMAIN result.chunks) >= 2
    /\ \E u \in DOMAIN result.chunks : Len(result.chunks[u].files) >= 2
    /\ result.size > 0

----------------------------------------------------------------------------
(* Claims about the records of the returned manifest *)

\* The byte string that a list of file entries names: the concatenation, in
\* entry order, of the bytes [start, start + length) of each file, as the
\* sequence of ranges <<file, from, to>> with empty ranges left out and
\* adjacent ranges of one file joined.
RECURSIVE ListedBytes(_, _)
ListedBytes(acc, entries) ==
    IF entries = <<>> THEN acc
    ELSE LET e == Head(entries)
             n == Len(acc)
             joined ==
                 IF e.length = 0 THEN acc
                 ELSE IF n > 0 /\ acc[n][1] = e.filename /\ acc[n][3] = e.start
                      THEN [acc EXCEPT ![n] = <<e.filename, acc[n][2],
                                                e.start + e.length>>]
                      ELSE Append(acc, <<e.filename, e.start,
                                         e.start + e.length>>)
         IN  ListedBytes(joined, Tail(entries))

\* C11: the checksum of every chunk record of the returned manifest is the
\* hash of the concatenation, in file-entry order, of exactly the bytes
\* [start, start + length) of each listed file (entries are listed in the
\* order their slices were read).
C11_ChecksumOfListedBytes ==
    pc = "returned" =>
        \A u \in DOMAIN result.chunks :
            result.chunks[u].checksum
                = Checksum(ListedBytes(<<>>, result.chunks[u].files))

----------------------------------------------------------------------------
(* Claims about progress reporting *)

\* A progress value <<n, d>> stands for n / d.
ProgressLeq(a, b) == a[1] * b[2] <= b[1] * a[2]

\* C12: the values passed to the progress callback never decrease, the k-th
\* value is (k / total_chunks) * 100, and when no chunk task failed the last
\* value reported before the return is 100 (one is reported whenever there is
\* a chunk).
C12_ProgressMonotoneTo100 ==
    /\ \A k \in 1..Len(progress_out) :
          progress_out[k] = <<k * 100, Len(tasks)>>
    /\ \A k \in 1..(Len(progress_out) - 1) :
          ProgressLeq(progress_out[k], progress_out[k + 1])
    /\ (pc = "returned" /\ ~SomeTaskFailed /\ Len(tasks) > 0) =>
          /\ progress_out # <<>>
          /\ progress_out[Len(progress_out)][1]
                = 100 * progress_out[Len(progress_out)][2]

\* C12 witness: three chunk tasks completed without failure, their messages
\* were received out of chunk order, and the operation returned.
C12_Witness ==
    /\ pc = "returned" /\ ~SomeTaskFailed
    /\ Len(progress_out) = 3
    /\ \E k \in 1..(Len(log_out) - 1) :
          /\ log_out[k].from = "reporter" /\ log_out[k + 1].from = "reporter"
          /\ log_out[k].text.index > log_out[k + 1].text.index

----------------------------------------------------------------------------
(* Claims about the manifest map *)

DoneTasks == { i \in 1..Len(tasks) : tasks[i].pc = "done" }

\* No two chunk tasks hold the same identifier, and the returned manifest has
\* exactly one record for each chunk task that ran to completion: the one
\* with that task's file entries, under that task's identifier.
OneRecordPerDoneTask ==
    /\ \A i, j \in 1..Len(tasks) : i # j => tasks[i].uuid # tasks[j].uuid
    /\ pc = "returned" =>
          /\ DOMAIN result.chunks = { tasks[i].uuid : i \in DoneTasks }
          /\ Cardinality(DOMAIN result.chunks) = Cardinality(DoneTasks)
          /\ \A i \in DoneTasks :
                result.chunks[tasks[i].uuid].files = tasks[i].files

\* C13: no two chunk tasks insert under the same identifier and no inserted
\* record is ever overwritten or removed, so the returned manifest holds
\* exactly one chunk record for each planned chunk whose task completed.
C13_RecordsInsertedOnce ==
    /\ []OneRecordPerDoneTask
    /\ [][\A u \in DOMAIN manifest :
              u \in DOMAIN manifest' /\ manifest'[u] = manifest[u]]_vars

\* C13 witness: the operation returned after two chunk tasks inserted their
\* records and a third one failed.
C13_Witness ==
    /\ pc = "returned" /\ SomeTaskFailed
    /\ Cardinality(DoneTasks) = 2
    /\ Cardinality(DOMAIN result.chunks) = 2

----------------------------------------------------------------------------
(* Claims about the backend lock *)

InsideReader == { i \in 1..Len(tasks) : tasks[i].pc = "reader" }

\* C14: at every moment at most one chunk task is between taking and
\* releasing the backend lock around reader(), and the lock names that task.
C14_OneTaskInsideReader ==
    /\ Cardinality(InsideReader) <= 1
    /\ \A i \in InsideReader : backend_lock = i
    /\ InsideReader = {} => backend_lock = 0

\* C14 witness: one chunk task is inside reader() while another one is
\* waiting for the lock.
C14_Witness ==
    /\ pc = "join"
    /\ \E i, j \in 1..Len(tasks) :
          /\ tasks[i].pc = "reader" /\ backend_lock = i
          /\ tasks[j].pc = "lock"

----------------------------------------------------------------------------
(* Termination of the chunk tasks and the reporter loop *)

\* How many chunks more than the log channel holds the large plan has.
ExtraChunks == 2

ManyChunks == LOG_CAPACITY + ExtraChunks

LiveFileSizes == { 50 * MiB, 100 * MiB }

\* Short listings, and one listing of ManyChunks files of CHUNK_SIZE bytes
\* each, which plans into more chunks than the log channel holds.
LiveInit ==
    InitFrom(ListingsOver(LiveFileSizes, PipeMaxFiles)
                \cup { [k \in 1..ManyChunks |-> CHUNK_SIZE] })

\* The chunk tasks of the large plan.
SpawnMany ==
    /\ Len(chunks) > MaxTasks
    /\ Len(files) = ManyChunks
    /\ SpawnTasks

\* The futures of the large plan are polled one after the other: a later one
\* runs only while every earlier one is over or waits in send() on a full
\* channel.  The reporter loop runs at any time.  Plans of at most MaxTasks
\* chunks are interleaved freely.
InOrder(i) ==
    \/ Len(tasks) <= MaxTasks
    \/ \A j \in 1..(i - 1) :
          \/ TaskOver(tasks[j])
          \/ tasks[j].pc = "send" /\ Len(channel) = LOG_CAPACITY

\* In the large plan the backend may fail the first and the last chunk task;
\* in the other plans, any chunk task.
MayFail(i) == Len(tasks) <= MaxTasks \/ i = 1 \/ i = Len(tasks)

LiveNext ==
    \/ Next
    \/ Spawn
    \/ SpawnMany
    \/ \E i \in 1..Len(tasks) : InOrder(i) /\ TaskLock(i)
    \/ \E i \in 1..Len(tasks) : InOrder(i) /\ TaskReader(i)
    \/ \E i \in 1..Len(tasks) : InOrder(i) /\ MayFail(i) /\ TaskReaderFails(i)
    \/ \E i \in 1..Len(tasks) : InOrder(i) /\ TaskRead(i)
    \/ \E i \in 1..Len(tasks) : InOrder(i) /\ MayFail(i) /\ TaskReadFails(i)
    \/ \E i \in 1..Len(tasks) : InOrder(i) /\ TaskSend(i)
    \/ \E i \in 1..Len(tasks) : InOrder(i) /\ TaskInsert(i)
    \/ ReporterRecv
    \/ ReporterEnd
    \/ Return

\* The executor always polls some future that can make progress, and every
\* backend read returns.
LiveSpec == LiveInit /\ [][LiveNext]_vars /\ WF_vars(LiveNext)

BlockedProducers ==
    { i \in 1..Len(tasks) : tasks[i].pc = "send" /\ Len(channel) = LOG_CAPACITY }

----------------------------------------------------------------------------
(* Claims about the callbacks *)

ReporterLines == { k \in 1..Len(log_out) : log_out[k].from = "reporter" }
MainLines == { k \in 1..Len(log_out) : log_out[k].from = "main" }

\* A step invokes the log callback at most once, and either the reporter loop
\* does it, together with its one progress callback, or the planner does it
\* while no chunk task and no reporter loop exists.
OneCallbackSite ==
    /\ log_out' # log_out =>
          /\ Len(log_out') = Len(log_out) + 1
          /\ SubSeq(log_out', 1, Len(log_out)) = log_out
          /\ \/ /\ log_out'[Len(log_out')].from = "reporter"
                /\ pc = "join" /\ reporter_pc = "recv"
                /\ Len(progress_out') = Len(progress_out) + 1
             \/ /\ log_out'[Len(log_out')].from = "main"
                /\ pc = "plan" /\ tasks = <<>> /\ reporter_pc = "idle"
                /\ progress_out' = progress_out
    /\ progress_out' # progress_out =>
          /\ Len(progress_out') = Len(progress_out) + 1
          /\ SubSeq(progress_out', 1, Len(progress_out)) = progress_out
          /\ pc = "join" /\ reporter_pc = "recv"
          /\ Len(log_out') = Len(log_out) + 1
          /\ log_out'[Len(log_out')].from = "reporter"

----------------------------------------------------------------------------
(* Claims about the order of the files *)

\* The positions of the listing the planning loop has taken so far: those
\* before idx, and idx itself while its remainder is carved.
Consumed ==
    { k \in 1..Len(files) : k < idx \/ (k = idx /\ pc = "carve") }

\* C17: whatever order list_files returns, the planning loop consumes the
\* files in non-increasing order of size.
C17_LargestFirst ==
    \A j, k \in Consumed : j < k => files[j].size >= files[k].size

----------------------------------------------------------------------------
(* The returned manifest as a function of the plan *)

\* The bytes of a file that a slice (file, start, length) makes a chunk task
\* hash: with the directory backend the bytes from start up to start + length
\* or the end of the file (the whole file when start + length = 0); with the
\* archive backend the whole file.
ExpectedRange(v) ==
    LET size == v[1].size
        end == v[2] + v[3]
    IN  IF required_single_file \/ end = 0
        THEN <<v[1].relative_filename, 0, size>>
        ELSE <<v[1].relative_filename, v[2],
               IF end < size THEN end ELSE IF v[2] < size THEN size ELSE v[2]>>

\* The digest input of a chunk: its slices' ranges in order, empty ranges
\* left out and adjacent ranges of one file written as one.
RECURSIVE ExpectedHashed(_, _)
ExpectedHashed(acc, chunk) ==
    IF chunk = <<>> THEN acc
    ELSE LET r == ExpectedRange(Head(chunk))
             n == Len(acc)
         IN  ExpectedHashed(
                 IF r[2] = r[3] THEN acc
                 ELSE IF n > 0 /\ acc[n][1] = r[1] /\ acc[n][3] = r[2]
                      THEN [acc EXCEPT ![n] = <<r[1], acc[n][2], r[3]>>]
                      ELSE Append(acc, r),
                 Tail(chunk))

\* The record of a planned chunk, whatever the chunk tasks' interleaving.
ExpectedRecord(chunk) ==
    [files |-> [k \in 1..Len(chunk) |->
                    [filename |-> chunk[k][1].relative_filename,
                     start |-> chunk[k][2], length |-> chunk[k][3]]],
     checksum |-> <<"sha256", ExpectedHashed(<<>>, chunk)>>]

RECURSIVE ExpectedSize(_)
ExpectedSize(done) ==
    IF done = {} THEN 0
    ELSE LET i == CHOOSE j \in done : TRUE
         IN  Payload(chunks[i]) + ExpectedSize(done \ {i})

\* C18: for a fixed plan and fixed file contents the returned manifest is the
\* same under every interleaving and completion order of the chunk tasks, up
\* to the identifiers: the record of each completed chunk and the declared
\* size are functions of the plan alone.
C18_ManifestIndependentOfInterleaving ==
    pc = "returned" =>
        /\ Cardinality(DOMAIN result.chunks) = Cardinality(DoneTasks)
        /\ \A i \in DoneTasks :
              /\ tasks[i].uuid \in DOMAIN result.chunks
              /\ result.chunks[tasks[i].uuid] = ExpectedRecord(chunks[i])
        /\ result.size = ExpectedSize(DoneTasks)

\* C18 witness: three chunk tasks completed, the last planned chunk's message
\* was reported first, and the manifest was returned.
C18_Witness ==
    /\ pc = "returned" /\ ~SomeTaskFailed
    /\ Cardinality(DOMAIN result.chunks) = 3
    /\ \E k \in 1..Len(log_out) :
          /\ log_out[k].from = "reporter"
          /\ log_out[k].text.index = 2
          /\ \A j \in 1..(k - 1) : log_out[j].from = "main"

----------------------------------------------------------------------------
(* Claims about failed chunk tasks *)

FailedTasks == { i \in 1..Len(tasks) : tasks[i].pc = "failed" }

\* The chunk tasks that have sent their completion message.
SentTasks == { i \in 1..Len(tasks) : tasks[i].pc \in {"insert", "done"} }

\* The chunk indices of the completion messages sent so far: those still in
\* the channel and those the reporter has logged.
SentIndices ==
    { channel[k].index : k \in 1..Len(channel) }
       \cup { log_out[k].text.index : k \in ReporterLines }

RECURSIVE ChunkLengths(_)
ChunkLengths(S) ==
    IF S = {} THEN 0
    ELSE LET i == CHOOSE j \in S : TRUE
         IN  tasks[i].chunk_length + ChunkLengths(S \ {i})

\* C19: a chunk task that failed in reader() or read() has sent no completion
\* message, added nothing to the running total and inserted no record; so the
\* progress callback was invoked once per chunk task that succeeded, and when
\* a chunk task failed every progress value, the last included, is below 100.
C19_FailedTaskLeavesNoTrace ==
    /\ \A i \in FailedTasks :
          /\ tasks[i].index \notin SentIndices
          /\ tasks[i].uuid \notin DOMAIN manifest
    /\ SentIndices = { tasks[i].index : i \in SentTasks }
    /\ Len(channel) + Cardinality(ReporterLines) = Cardinality(SentTasks)
    /\ total_manifest_length = ChunkLengths(SentTasks)
    /\ pc = "returned" =>
          /\ Len(progress_out) = Cardinality(DoneTasks)
          /\ Cardinality(DoneTasks) = Len(tasks) - Cardinality(FailedTasks)
          /\ SomeTaskFailed =>
                \A k \in 1..Len(progress_out) :
                    progress_out[k][1] < 100 * progress_out[k][2]

\* C19 witness: of three chunk tasks one failed on its first slice, two succeeded,
\* and the operation returned with a last progress value of 200/3.
C19_Witness ==
    /\ pc = "returned"
    /\ Len(tasks) = 3 /\ Cardinality(FailedTasks) = 1
    /\ \E i \in FailedTasks : tasks[i].files = <<>> /\ tasks[i].hashed = <<>>
    /\ Len(progress_out) = 2
    /\ progress_out[2] = <<200, 3>>

----------------------------------------------------------------------------
(* Claims about the siblings of a failed chunk task *)

\* A step in which a chunk task fails changes no other chunk task.
FailureLeavesSiblings ==
    \A i \in 1..Len(tasks) :
        (Len(tasks') = Len(tasks) /\ tasks[i].pc # "failed"
            /\ tasks'[i].pc = "failed")
        => \A j \in 1..Len(tasks) : j # i => tasks'[j] = tasks[j]

\* C20: when a chunk task fails no sibling is cancelled: a failing step
\* leaves the other tasks as they are, the operation returns only when every
\* chunk task has completed or failed, and every task that completed has its
\* record in the manifest and its length in the total.
C20_SiblingsRunToTheEnd ==
    /\ [](pc = "returned" =>
            /\ \A i \in 1..Len(tasks) : TaskOver(tasks[i])
            /\ \A i \in DoneTasks :
                  /\ tasks[i].uuid \in DOMAIN result.chunks
                  /\ result.chunks[tasks[i].uuid].files = tasks[i].files
                  /\ Len(tasks[i].files) = Len(chunks[i])
            /\ result.size = ChunkLengths(DoneTasks))
    /\ [][FailureLeavesSiblings]_vars

\* C20 witness: the first of three chunk tasks failed, both later siblings
\* completed with their records inserted and their lengths counted, and the
\* operation returned.
C20_Witness ==
    /\ pc = "returned"
    /\ Len(tasks) = 3
    /\ FailedTasks = {1}
    /\ DoneTasks = {2, 3}
    /\ DOMAIN result.chunks = {tasks[2].uuid, tasks[3].uuid}
    /\ result.size = tasks[2].chunk_length + tasks[3].chunk_length
    /\ result.size > 0

----------------------------------------------------------------------------
(* Claims about the split of a file *)

\* A step of the split branch or of the carving loop.
SplitStep == ~required_single_file /\ (pc = "carve" \/ (pc = "plan" /\ pc' = "carve")
                \/ (pc = "plan" /\ chunks' # chunks /\ idx <= Len(files)
                      /\ SliceLength(chunks'[Len(chunks')][Len(chunks'[Len(chunks')])])
                            < files[idx].size))

\* The bytes of the file at idx that the plan holds after the step.
CoveredAfterStep ==
    SumLengths(chunks', SlicesOfFile(chunks', idx))
       + SumSeq([k \in 1..Len(current_chunk') |->
                   IF SliceFile(current_chunk'[k]).relative_filename = idx
                   THEN SliceLength(current_chunk'[k]) ELSE 0])

\* What the claim says of one step that splits the file at idx.
SplitAsDescribed ==
    /\ chunks' # chunks => Payload(chunks'[Len(chunks')]) = CHUNK_SIZE
    /\ idx' # idx =>
          /\ CoveredAfterStep = files[idx].size
          /\ current_chunk' # <<>> =>
                /\ Len(current_chunk') = 1
                /\ SliceFile(current_chunk'[1]) = files[idx]
                /\ SliceLength(current_chunk'[1]) < CHUNK_SIZE
                /\ SliceStart(current_chunk'[1]) + SliceLength(current_chunk'[1])
                      = files[idx].size

\* C21: with a range-capable backend, whenever a file is split the chunk
\* closed by its prefix slice has a payload of exactly CHUNK_SIZE, every chunk
\* carved from the middle of the file has exactly CHUNK_SIZE, and the final
\* remainder, shorter than CHUNK_SIZE, is the first slice of the next
\* in-progress chunk.
C21_SplitFillsChunksExactly ==
    [][SplitStep => SplitAsDescribed]_vars

----------------------------------------------------------------------------
(* Claims about oversized files under a whole-files-only backend *)

\* The planning loop is about to take a file of at least CHUNK_SIZE bytes
\* under a whole-files-only backend.
AtOversizedWholeFile ==
    /\ required_single_file /\ pc = "plan" /\ idx <= Len(files)
    /\ files[idx].size >= CHUNK_SIZE

\* C22: with a whole-file-only backend every file of at least CHUNK_SIZE bytes
\* is placed alone in its own chunk as the one slice (0, size), and the
\* in-progress chunk is neither closed nor altered; a single 100 MiB file
\* yields exactly one chunk of 100 MiB.
C22_OversizedWholeFileOwnChunk ==
    /\ [][AtOversizedWholeFile =>
            /\ chunks' = Append(chunks, <<Slice(files[idx], 0, files[idx].size)>>)
            /\ current_chunk' = current_chunk
            /\ idx' = idx + 1]_vars
    /\ []((pc = "planned" /\ required_single_file) =>
            \A i \in 1..Len(files) :
                files[i].size >= CHUNK_SIZE =>
                    /\ AloneInOneChunk(i)
                    /\ Cardinality(SlicesOfFile(chunks, i)) = 1)
    /\ []((pc = "planned" /\ required_single_file /\ SizesAre(<<100 * MiB>>)) =>
            chunks = << <<Slice(files[1], 0, 100 * MiB)>> >>)

\* C22 witness: under a whole-files-only backend an oversized file has just
\* been given its own chunk while the in-progress chunk, started by an
\* earlier file, is still open and unchanged.
C22_Witness ==
    /\ required_single_file /\ pc = "plan"
    /\ idx = 3
    /\ files[1].size > 0 /\ files[1].size < CHUNK_SIZE
    /\ files[2].size >= CHUNK_SIZE
    /\ current_chunk = <<Slice(files[1], 0, files[1].size)>>
    /\ chunks = << <<Slice(files[2], 0, files[2].size)>> >>

----------------------------------------------------------------------------
(* Claims about the bytes a chunk task reads *)

\* The number of bytes fed to a digest whose input is h.
HashedBytes(h) == SumSeq([k \in 1..Len(h) |-> h[k][3] - h[k][2]])

\* C23: every chunk task that completes has read from the backend and fed to
\* its digest exactly as many bytes as the chunk length it adds to the
\* running total, the sum of its planned slice lengths.
C23_BytesReadEqualChunkLength ==
    \A i \in 1..Len(tasks) :
        tasks[i].pc \in {"send", "insert", "done"} =>
            /\ tasks[i].chunk_length = Payload(tasks[i].chunk)
            /\ HashedBytes(tasks[i].hashed) = tasks[i].chunk_length

====
